---- MODULE Spec2Model ----
(***************************************************************************)
(* Model of src/app.py: the Streamlit dashboard that validates an uploaded *)
(* image, re-encodes it, POSTs it to TorchServe and displays the returned  *)
(* label -> confidence mapping.                                            *)
(*                                                                         *)
(* One step of the model is one run of the script, started by one user     *)
(* interaction (upload, remove, Analyze click, download click).  The       *)
(* session state (predictions, analysis_time) survives between runs; the   *)
(* screen is rebuilt by every run.                                         *)
(*                                                                         *)
(* Text is a sequence of one-character strings; a fixed literal of the     *)
(* source is one element.  Confidences and durations are integers: a       *)
(* confidence c stands for c / 1000, a duration t for t / 100 seconds.     *)
(***************************************************************************)
EXTENDS Integers, Sequences, FiniteSets

VARIABLES
    predictions,    \* st.session_state.predictions
    analysis_time,  \* st.session_state.analysis_time
    uploaded_file,  \* what st.file_uploader returns to the run
    file_pos,       \* read position of the uploaded buffer after validate_image
    event,          \* the interaction that started the latest run
    reply,          \* what requests.post met in the latest call of get_predictions
    outcome,        \* (success, predictions, error_msg) of that call
    posts,          \* number of POSTs the latest run issued
    analysed,       \* the upload whose analysis was stored in predictions
    screen          \* what the latest run rendered

vars == <<predictions, analysis_time, uploaded_file, file_pos, event, reply,
          outcome, posts, analysed, screen>>

(***************************************************************************)
(* Bounds of the model.                                                    *)
(***************************************************************************)
MaxPreds == 2      \* longest prediction mapping the server returns
MaxOver == 1       \* how far a long body exceeds the truncation length
MaxTime == 1       \* largest measured duration

(***************************************************************************)
(* Constants of the program.                                               *)
(***************************************************************************)
MAX_FILE_SIZE == 10485760
REQUEST_TIMEOUT == 30
TextLimit == 200
HighPermille == 700
MediumPermille == 400
FreshPos == 0

Min(a, b) == IF a < b THEN a ELSE b

(***************************************************************************)
(* Python / JSON values.  JSON null is Python None.                        *)
(***************************************************************************)
None == [t |-> "null"]
Num(n) == [t |-> "num", num |-> n]
Str(s) == [t |-> "str", str |-> s]
Arr(a) == [t |-> "arr", arr |-> a]
Obj(items) == [t |-> "obj", obj |-> items]
NotJson == [t |-> "notjson"]

\* bool(v) as the `if st.session_state.predictions:` test takes it
Truthy(v) ==
    CASE v.t = "null" -> FALSE
      [] v.t = "num" -> v.num # 0
      [] v.t = "str" -> v.str # <<>>
      [] v.t = "arr" -> v.arr # <<>>
      [] v.t = "obj" -> v.obj # <<>>
      [] OTHER -> FALSE

\* dict.keys(), dict.values(), dict.get(key, default); an item is <<key, value>>
Keys(items) == [i \in 1..Len(items) |-> items[i][1]]
Values(items) == [i \in 1..Len(items) |-> items[i][2]]
HasKey(items, k) == \E i \in 1..Len(items) : items[i][1] = k
Get(items, k, default) ==
    IF HasKey(items, k)
    THEN items[CHOOSE i \in 1..Len(items) : items[i][1] = k][2]
    ELSE default

(***************************************************************************)
(* Text.                                                                   *)
(***************************************************************************)
DigitChars == <<"0", "1", "2", "3", "4", "5", "6", "7", "8", "9">>

RECURSIVE Digits(_)
\* str(n) of a natural number
Digits(n) ==
    IF n < 10 THEN <<DigitChars[n + 1]>>
    ELSE Digits(n \div 10) \o <<DigitChars[(n % 10) + 1]>>

\* a text of n characters, no two neighbours equal
Fill(n) == [i \in 1..n |-> DigitChars[(i % 10) + 1]]

\* text[:k]
Prefix(text, k) == SubSeq(text, 1, Min(k, Len(text)))

RECURSIVE Flatten(_)
Flatten(ss) == IF ss = <<>> THEN <<>> ELSE Head(ss) \o Flatten(Tail(ss))

RECURSIVE JsonText(_)
\* the body text of a JSON value, as the server writes it
JsonText(v) ==
    CASE v.t = "null" -> <<"n", "u", "l", "l">>
      [] v.t = "num" -> Digits(v.num)
      [] v.t = "str" -> <<"\"">> \o v.str \o <<"\"">>
      [] v.t = "arr" ->
            <<"[">> \o Flatten([i \in 1..Len(v.arr) |->
                (IF i > 1 THEN <<",">> ELSE <<>>) \o JsonText(v.arr[i])]) \o <<"]">>
      [] v.t = "obj" ->
            <<"{">> \o Flatten([i \in 1..Len(v.obj) |->
                (IF i > 1 THEN <<",">> ELSE <<>>)
                \o <<"\"">> \o v.obj[i][1] \o <<"\"", ":">>
                \o JsonText(v.obj[i][2])]) \o <<"}">>

\* str(v) inside an f-string
PyStr(v) ==
    CASE v.t = "null" -> <<"None">>
      [] v.t = "str" -> v.str
      [] OTHER -> JsonText(v)

(***************************************************************************)
(* Uploaded files.  kind says what Pillow makes of the bytes: "image"      *)
(* (Image.open and verify succeed), "unidentified" (Image.open raises),    *)
(* "corrupt" (Image.open succeeds, verify raises); read is the number of   *)
(* bytes Pillow has read from the buffer when it returns or raises.        *)
(***************************************************************************)
NoFile ==
    [name |-> <<>>, size |-> 0, kind |-> "none", read |-> 0, mode |-> "", width |-> 0,
     height |-> 0]

File(name, size, kind, read, mode, w, h) ==
    [name |-> name, size |-> size, kind |-> kind, read |-> read, mode |-> mode,
     width |-> w, height |-> h]

\* modes that carry an alpha channel (Pillow's Image.Image.has_transparency_data bands)
AlphaModes == {"RGBA", "LA", "PA", "RGBa", "La"}

\* modes the JPEG encoder of Pillow writes (JpegImagePlugin.RAWMODE)
JpegModes == {"1", "L", "RGB", "RGBX", "CMYK", "YCbCr"}

\* str(e) of the exception Pillow raises on the file
DecoderError(f) ==
    IF f.kind = "unidentified" THEN "cannot identify image file" ELSE "broken image file"

\* validate_image: the result and the buffer's read position after the call
validate_image(f) ==
    IF f.size > MAX_FILE_SIZE
    THEN [is_valid |-> FALSE, error_msg |-> <<"File size exceeds 10MB limit.">>,
          pos |-> FreshPos]
    ELSE IF f.kind = "unidentified"
    THEN \* Image.open read the buffer and raised: seek(0) is skipped
         [is_valid |-> FALSE, error_msg |-> <<"Invalid image file: ", DecoderError(f)>>,
          pos |-> f.read]
    ELSE IF f.kind = "corrupt"
    THEN \* verify read the buffer and raised: seek(0) is skipped
         [is_valid |-> FALSE, error_msg |-> <<"Invalid image file: ", DecoderError(f)>>,
          pos |-> f.read]
    ELSE [is_valid |-> TRUE, error_msg |-> <<>>, pos |-> 0]

\* Image.open(uploaded_file) of a valid upload
OpenImage(f) == [mode |-> f.mode, width |-> f.width, height |-> f.height]

NoBytes == [raised |-> "none", format |-> "", mode |-> "", width |-> 0, height |-> 0]

\* preprocess_image: the encoded image, or the exception image.save raises
preprocess_image(image) ==
    LET mode == IF image.mode = "RGBA" THEN "RGB" ELSE image.mode
    IN  IF mode \in JpegModes
        THEN [raised |-> "none", format |-> "JPEG",
              mode |-> IF mode = "1" THEN "L" ELSE IF mode = "RGBX" THEN "RGB" ELSE mode,
              width |-> image.width, height |-> image.height]
        ELSE [NoBytes EXCEPT !.raised = "OSError"]

(***************************************************************************)
(* The inference client.  A reply is what requests.post meets: an          *)
(* exception of the transport, or a response with a status and a body.     *)
(***************************************************************************)
Body(json, text) == [json |-> json, text |-> text]
JsonBody(v) == Body(v, JsonText(v))
NoBody == Body(NotJson, <<>>)

Raised(exc) == [exc |-> exc, status |-> 0, body |-> NoBody]
Response(status, body) == [exc |-> "none", status |-> status, body |-> body]
NoReply == Raised("nocall")

\* the classes an exception of requests is an instance of
Bases(exc) ==
    CASE exc = "ConnectionError" -> {"ConnectionError", "RequestException", "Exception"}
      [] exc = "ConnectTimeout" ->
            {"ConnectTimeout", "ConnectionError", "Timeout", "RequestException", "Exception"}
      [] exc = "ReadTimeout" -> {"ReadTimeout", "Timeout", "RequestException", "Exception"}
      [] OTHER -> {exc, "Exception"}

ConnectMsg ==
    <<"Cannot connect to TorchServe. Please ensure Docker container is running on port 8080.">>
TimeoutMsg == <<"Request timed out after ">> \o Digits(REQUEST_TIMEOUT) \o <<" seconds.">>
UnexpectedMsg(exc) == <<"Unexpected error: ", exc>>
StatusMsg(status) == <<"Server returned status ">> \o Digits(status)

Result(success, preds, msg) == [success |-> success, predictions |-> preds, error_msg |-> msg]
NoResult == Result(FALSE, None, <<"nocall">>)

\* the except clauses of get_predictions, in their order
Handle(exc) ==
    IF "ConnectionError" \in Bases(exc) THEN Result(FALSE, None, ConnectMsg)
    ELSE IF "Timeout" \in Bases(exc) THEN Result(FALSE, None, TimeoutMsg)
    ELSE Result(FALSE, None, UnexpectedMsg(exc))

\* the detail get_predictions appends to the status of a non-200 response
ErrorDetail(body) ==
    IF body.json.t = "obj"
    THEN PyStr(Get(body.json.obj, <<"m", "e", "s", "s", "a", "g", "e">>, Str(body.text)))
    ELSE \* response.json() raised, or .get is no attribute of the value
         Prefix(body.text, TextLimit)

\* get_predictions: (success, predictions, error_msg) for what the POST met
get_predictions(r) ==
    IF r.exc # "none" THEN Handle(r.exc)
    ELSE IF r.status = 200
    THEN IF r.body.json = NotJson
         THEN Handle("JSONDecodeError")
         ELSE Result(TRUE, r.body.json, <<>>)
    ELSE Result(FALSE, None, StatusMsg(r.status) \o <<": ">> \o ErrorDetail(r.body))

(***************************************************************************)
(* The display of the stored predictions.                                  *)
(***************************************************************************)
IsLetter(c) == c \in {"a", "b", "c", "d", "g", "o", "t", "A", "B", "C", "D", "G", "O", "T"}

Upper(c) ==
    CASE c = "a" -> "A" [] c = "b" -> "B" [] c = "c" -> "C" [] c = "d" -> "D"
      [] c = "g" -> "G" [] c = "o" -> "O" [] c = "t" -> "T" [] OTHER -> c

Lower(c) ==
    CASE c = "A" -> "a" [] c = "B" -> "b" [] c = "C" -> "c" [] c = "D" -> "d"
      [] c = "G" -> "g" [] c = "O" -> "o" [] c = "T" -> "t" [] OTHER -> c

\* label.replace('_', ' ').title()
DisplayLabel(label) ==
    LET spaced == [i \in 1..Len(label) |-> IF label[i] = "_" THEN " " ELSE label[i]]
    IN  [i \in 1..Len(spaced) |->
            IF i = 1 \/ ~IsLetter(spaced[i - 1])
            THEN Upper(spaced[i]) ELSE Lower(spaced[i])]

\* format_confidence: f"{value * 100:.2f}%" of the confidence c / 1000
format_confidence(c) ==
    Digits(c \div 10) \o <<".", DigitChars[(c % 10) + 1], "0", "%">>

\* f"{score_pct:.1f}%"
RowValue(c) == Digits(c \div 10) \o <<".", DigitChars[(c % 10) + 1], "%">>

\* f"{analysis_time:.2f}s" of a duration of t hundredths of a second
TimeText2(t) ==
    Digits(t \div 100)
    \o <<".", DigitChars[((t \div 10) % 10) + 1], DigitChars[(t % 10) + 1], "s">>

\* f"{analysis_time:.3f}s"
TimeText(t) ==
    Digits(t \div 100)
    \o <<".", DigitChars[((t \div 10) % 10) + 1], DigitChars[(t % 10) + 1], "0", "s">>

Bucket_inclusive(c) ==
    IF c >= HighPermille THEN "High" ELSE IF c >= MediumPermille THEN "Medium" ELSE "Low"

\* the delta of the confidence metric
Bucket(c) ==
    IF c > HighPermille THEN "High" ELSE IF c > MediumPermille THEN "Medium" ELSE "Low"

Medal(idx) == IF idx = 1 THEN "gold" ELSE IF idx = 2 THEN "silver"
              ELSE IF idx = 3 THEN "bronze" ELSE "square"

\* one row of the "All Predictions" list
Row(idx, item) ==
    [rank |-> idx, medal |-> Medal(idx), raw |-> item[1], label |-> DisplayLabel(item[1]),
     confidence |-> item[2].num,
     progress |-> Min(item[2].num \div 10, 100), value |-> RowValue(item[2].num)]

\* the number of leading items whose value is a number: the loop raises at the next
NumericRun(items) ==
    IF \A i \in 1..Len(items) : items[i][2].t = "num" THEN Len(items)
    ELSE (CHOOSE i \in 1..Len(items) :
            /\ items[i][2].t # "num"
            /\ \A j \in 1..(i - 1) : items[j][2].t = "num") - 1

NoDisplay ==
    [shown |-> FALSE, exception |-> "none", headline |-> <<>>, rows |-> <<>>,
     caption |-> <<>>, download |-> <<>>]

\* what the block under `if st.session_state.predictions:` renders
Display(preds, time, file) ==
    IF ~Truthy(preds) THEN NoDisplay
    ELSE IF preds.t # "obj"
    THEN [NoDisplay EXCEPT !.shown = TRUE, !.exception = "AttributeError"]
    ELSE LET items == preds.obj
             best_label == Keys(items)[1]
             best_score == Values(items)[1]
             n == NumericRun(items)
             rows == [i \in 1..n |-> Row(i, items[i])]
         IN  IF best_score.t # "num"
             THEN [NoDisplay EXCEPT !.shown = TRUE, !.exception = "TypeError"]
             ELSE LET headline ==
                        <<[raw |-> best_label, label |-> DisplayLabel(best_label),
                           confidence |-> best_score.num,
                           value |-> format_confidence(best_score.num),
                           delta |-> Bucket(best_score.num)]>>
                  IN  IF n < Len(items) \/ time = None
                      THEN [NoDisplay EXCEPT !.shown = TRUE, !.exception = "TypeError",
                                             !.headline = headline, !.rows = rows]
                      ELSE [shown |-> TRUE, exception |-> "none",
                            headline |-> headline, rows |-> rows,
                            caption |-> <<"Analysis time: ">> \o TimeText(time.num),
                            download |-> <<"predictions_">> \o file.name \o <<".json">>]

(***************************************************************************)
(* The inputs: the files a user uploads, what the POST meets.              *)
(***************************************************************************)
SmallSize == 1024

Files ==
    {File(<<"a.png">>, SmallSize, "image", SmallSize, "RGB", 2, 3),
     File(<<"b.png">>, SmallSize, "image", SmallSize, "RGBA", 3, 2),
     File(<<"a.png">>, SmallSize, "image", SmallSize, "LA", 2, 3),
     File(<<"b.png">>, SmallSize, "image", SmallSize, "P", 2, 3),
     File(<<"a.png">>, MAX_FILE_SIZE + 1, "image", 0, "RGB", 2, 3),
     File(<<"a.png">>, SmallSize, "corrupt", SmallSize, "", 0, 0),
     File(<<"b.png">>, 0, "unidentified", 0, "", 0, 0),
     File(<<"b.png">>, SmallSize, "unidentified", 16, "", 0, 0)}

Labels == {<<"d", "o", "g">>, <<"c", "a", "t">>, <<"a", "_", "b">>}
TopConfidences == {0, 400, 401, 700, 701, 1000}
RestConfidence == 900

\* the label -> confidence mappings of a 200 response, in the order received
Mappings ==
    UNION {{[i \in 1..n |-> <<ls[i], Num(IF i = 1 THEN c ELSE RestConfidence)>>] :
                ls \in {f \in [1..n -> Labels] : \A i, j \in 1..n : i # j => f[i] # f[j]},
                c \in TopConfidences} :
           n \in 1..MaxPreds}

IsMapping(v) ==
    /\ v.t = "obj"
    /\ \A i \in 1..Len(v.obj) : v.obj[i][2].t = "num"

LongLen == TextLimit + MaxOver
Oom == <<"O", "O", "M">>
MessageKey == <<"m", "e", "s", "s", "a", "g", "e">>
ErrorKey == <<"e", "r", "r", "o", "r">>

\* bodies of a 200 response
OkBodies ==
    {JsonBody(Obj(m)) : m \in Mappings}
    \cup {Body(NotJson, Fill(3)),
          JsonBody(None), JsonBody(Num(5)), JsonBody(Arr(<<>>)), JsonBody(Obj(<<>>)),
          JsonBody(Arr(<<Str(<<"d", "o", "g">>)>>)),
          JsonBody(Obj(<< <<(<<"d", "o", "g">>), Str(<<"h", "i">>)>> >>)),
          JsonBody(Obj(<< <<(<<"d", "o", "g">>), Num(900)>>, <<(<<"c", "a", "t">>), None>> >>))}

\* bodies of a response with another status
ErrorBodies ==
    {Body(NotJson, Fill(n)) : n \in {0, 3, TextLimit, LongLen}}
    \cup {JsonBody(Obj(<< <<MessageKey, Str(m)>> >>)) : m \in {Oom, Fill(LongLen)}}
    \cup {JsonBody(Obj(<< <<ErrorKey, Str(m)>> >>)) : m \in {Oom, Fill(LongLen)}}
    \cup {JsonBody(Obj(<< <<MessageKey, None>> >>)),
          JsonBody(Arr(<<Str(Fill(LongLen))>>)), JsonBody(None)}

Replies ==
    {Raised(e) : e \in {"ConnectionError", "ConnectTimeout", "ReadTimeout", "TooManyRedirects"}}
    \cup {Response(200, b) : b \in OkBodies}
    \cup {Response(st, b) : st \in {404, 500}, b \in ErrorBodies}

Durations == 1..MaxTime

(***************************************************************************)
(* One run of the script.                                                  *)
(***************************************************************************)
Session(preds, time) == [predictions |-> preds, analysis_time |-> time]

Store_keep(res, t, old) ==
    IF res.success THEN Session(res.predictions, Num(t)) ELSE old

Store_notime(res, t, old) ==
    IF res.success
    THEN Session(res.predictions, old.analysis_time)
    ELSE Session(None, old.analysis_time)

\* the branch on success after get_predictions: what the session holds afterwards
Store(res, t, old) ==
    IF res.success
    THEN Session(res.predictions, Num(t))
    ELSE Session(None, old.analysis_time)

Screen(left, left_msg, right, status, status_msg, display, downloaded) ==
    [left |-> left, left_msg |-> left_msg, right |-> right, status |-> status,
     status_msg |-> status_msg, display |-> display, downloaded |-> downloaded]

\* a run that does not analyse: the script from top to bottom with analyze_btn False
Render(f, ev, clicked) ==
    /\ uploaded_file' = f
    /\ event' = ev
    /\ posts' = 0
    /\ file_pos' = IF f = NoFile THEN FreshPos ELSE validate_image(f).pos
    /\ UNCHANGED <<predictions, analysis_time, reply, outcome, analysed>>
    /\ screen' =
        IF f = NoFile
        THEN Screen("empty", <<>>, "info", "none", <<>>, NoDisplay, FALSE)
        ELSE IF ~validate_image(f).is_valid
        THEN Screen("error", validate_image(f).error_msg, "warning", "none", <<>>,
                    NoDisplay, FALSE)
        ELSE LET d == Display(predictions, analysis_time, f)
             IN  Screen("image", f.name, "results", "none", <<>>, d,
                        clicked /\ d.download # <<>>)

\* the Analyze button is rendered for a valid upload only
ButtonShown == uploaded_file # NoFile /\ validate_image(uploaded_file).is_valid

Init ==
    /\ predictions = None
    /\ analysis_time = None
    /\ uploaded_file = NoFile
    /\ file_pos = FreshPos
    /\ event = "open"
    /\ reply = NoReply
    /\ outcome = NoResult
    /\ posts = 0
    /\ analysed = NoFile
    /\ screen = Screen("empty", <<>>, "info", "none", <<>>, NoDisplay, FALSE)

\* the user uploads a file, replacing the current one if any
Upload ==
    \E f \in Files :
        /\ f # NoFile
        /\ Render(f, "upload", FALSE)

\* the user removes the uploaded file
Remove ==
    /\ uploaded_file # NoFile
    /\ Render(NoFile, "remove", FALSE)

\* the user clicks the download button of the latest render
Download ==
    /\ screen.display.download # <<>>
    /\ Render(uploaded_file, "download", TRUE)

\* the user clicks Analyze and image.save raises: the run ends at preprocess_image
AnalyzeRaises ==
    /\ ButtonShown
    /\ preprocess_image(OpenImage(uploaded_file)).raised # "none"
    /\ event' = "analyze"
    /\ posts' = 0
    /\ file_pos' = validate_image(uploaded_file).pos
    /\ screen' = Screen("image", uploaded_file.name, "results", "exception",
                        <<preprocess_image(OpenImage(uploaded_file)).raised>>,
                        NoDisplay, FALSE)
    /\ UNCHANGED <<predictions, analysis_time, uploaded_file, reply, outcome, analysed>>

\* the user clicks Analyze: preprocess, one POST, store, display
AnalyzePosts ==
    /\ ButtonShown
    /\ preprocess_image(OpenImage(uploaded_file)).raised = "none"
    /\ \E r \in Replies, t \in Durations :
        LET res == get_predictions(r)
            session == Store(res, t, Session(predictions, analysis_time))
        IN  /\ reply' = r
            /\ outcome' = res
            /\ posts' = 1
            /\ predictions' = session.predictions
            /\ analysis_time' = session.analysis_time
            /\ analysed' = IF res.success THEN uploaded_file ELSE analysed
            /\ screen' = Screen("image", uploaded_file.name, "results",
                                IF res.success THEN "success" ELSE "error",
                                IF res.success
                                THEN <<"Analysis complete in ">> \o TimeText2(t)
                                ELSE res.error_msg,
                                Display(session.predictions, session.analysis_time,
                                        uploaded_file),
                                FALSE)
    /\ event' = "analyze"
    /\ file_pos' = validate_image(uploaded_file).pos
    /\ UNCHANGED uploaded_file

Next == Upload \/ Remove \/ Download \/ AnalyzeRaises \/ AnalyzePosts

Spec == Init /\ [][Next]_vars

(***************************************************************************)
(* The claims.  A run "analysed" when event = "analyze"; it called         *)
(* get_predictions when posts = 1, and reply / outcome are then what that  *)
(* call met and returned.                                                  *)
(***************************************************************************)
Called == event = "analyze" /\ posts = 1

\* C1: once the latest call of get_predictions ended in a failure, the session's
\* predictions are None and no render shows a prediction list, whatever was stored
\* before, until a later call succeeds.
C1_FailureClearsPredictions ==
    (reply # NoReply /\ ~outcome.success) =>
        (predictions = None /\ ~screen.display.shown)

\* a render after a failed analysis that followed a stored success
C1_Witness ==
    /\ reply # NoReply
    /\ ~outcome.success
    /\ analysed # NoFile
    /\ event = "upload"
    /\ screen.right = "results"

\* C2: a 200 response whose body is not a JSON object of label -> number ends in
\* an "Unexpected error" failure: never a success, never an uncaught exception,
\* neither in get_predictions nor in the display.
C2_MalformedOkIsFailure ==
    (/\ Called
     /\ reply.exc = "none"
     /\ reply.status = 200
     /\ ~IsMapping(reply.body.json)) =>
        /\ ~outcome.success
        /\ screen.status = "error"
        /\ Head(screen.status_msg) = "Unexpected error: "
        /\ screen.display.exception = "none"

\* C3: for a non-200 response get_predictions returns a failure whose message is
\* the status code followed by the body's 'message' field when the body is JSON
\* with that field, and otherwise by at most the first 200 characters of the body.
C3_ServerErrorMessage ==
    (Called /\ reply.exc = "none" /\ reply.status # 200) =>
        LET pre == StatusMsg(reply.status) \o <<": ">>
            msg == outcome.error_msg
            detail == SubSeq(msg, Len(pre) + 1, Len(msg))
            json == reply.body.json
        IN  /\ ~outcome.success
            /\ Prefix(msg, Len(pre)) = pre
            /\ IF json.t = "obj" /\ HasKey(json.obj, MessageKey)
               THEN detail = PyStr(Get(json.obj, MessageKey, None))
               ELSE /\ Len(detail) <= TextLimit
                    /\ detail = Prefix(reply.body.text, TextLimit)

\* C4: every timeout of the transport, while connecting or while waiting for the
\* response, gives the failure 'Request timed out after 30 seconds.'.
C4_TimeoutKind ==
    (Called /\ "Timeout" \in Bases(reply.exc)) =>
        (~outcome.success /\ outcome.error_msg = TimeoutMsg)

\* C5: for an uploaded buffer within the size limit that is no decodable image,
\* validate_image reports 'Invalid image file: ...' and leaves the buffer's read
\* position where it was before the call.
C5_InvalidKeepsPosition ==
    (/\ uploaded_file # NoFile
     /\ uploaded_file.size <= MAX_FILE_SIZE
     /\ uploaded_file.kind # "image") =>
        /\ screen.left = "error"
        /\ Head(screen.left_msg) = "Invalid image file: "
        /\ file_pos = FreshPos

\* C6: for a valid image in a mode with an alpha channel preprocess_image returns
\* without raising, and its output is an encoded image in a mode without alpha
\* of the same width and height.
C6_AlphaIsNormalized ==
    (event = "analyze" /\ uploaded_file.mode \in AlphaModes) =>
        LET image == OpenImage(uploaded_file)
            out == preprocess_image(image)
        IN  /\ screen.status # "exception"
            /\ out.raised = "none"
            /\ out.mode \notin AlphaModes
            /\ out.width = image.width
            /\ out.height = image.height

\* C7: every Analyze action issues exactly one POST.
C7_OnePostPerAnalyze == event = "analyze" => posts = 1

\* C8: for a stored non-empty mapping the display keeps the received order: the
\* headline is the first entry, with High above 0.70, Medium above 0.40 up to
\* 0.70 and Low up to 0.40, and the rows are all entries, in order, ranked 1..n.
C8_DisplayKeepsOrder ==
    (/\ screen.right = "results"
     /\ screen.status # "exception"
     /\ IsMapping(predictions)
     /\ predictions.obj # <<>>) =>
        LET items == predictions.obj
            d == screen.display
            c == items[1][2].num
        IN  /\ d.exception = "none"
            /\ Len(d.headline) = 1
            /\ d.headline[1].raw = items[1][1]
            /\ d.headline[1].confidence = c
            /\ (c > HighPermille => d.headline[1].delta = "High")
            /\ (c > MediumPermille /\ c <= HighPermille => d.headline[1].delta = "Medium")
            /\ (c <= MediumPermille => d.headline[1].delta = "Low")
            /\ Len(d.rows) = Len(items)
            /\ \A i \in 1..Len(items) :
                /\ d.rows[i].rank = i
                /\ d.rows[i].raw = items[i][1]
                /\ d.rows[i].confidence = items[i][2].num

\* a displayed mapping whose first entry is at exactly 0.70 and below the second
C8_Witness ==
    /\ screen.display.shown
    /\ Len(screen.display.rows) = 2
    /\ screen.display.rows[1].confidence = HighPermille
    /\ screen.display.rows[2].confidence > HighPermille
    /\ screen.display.headline[1].delta = "Medium"

\* C9: a displayed prediction list, and the download named after the uploaded
\* file, come from analysing the image that is uploaded now.
C9_DisplayedIsCurrent ==
    screen.display.shown =>
        /\ analysed = uploaded_file
        /\ (screen.display.download # <<>> =>
                screen.display.download = <<"predictions_">> \o analysed.name \o <<".json">>)

\* C10: stored predictions that are not None come with an analysis_time that is
\* not None.
C10_TimeWithPredictions == predictions # None => analysis_time # None

\* a render after a download click that displays stored predictions with the
\* caption formatted from analysis_time
C10_Witness ==
    /\ predictions # None
    /\ analysis_time # None
    /\ screen.display.caption # <<>>
    /\ event = "download"

====
